---- MODULE Spec2Model ----
(***************************************************************************)
(* Model of src/app/page.tsx (ProductPal): the conversation/session state  *)
(* of the Page component, its effects (load, save, sample-data toggle),    *)
(* its actions (createNewConversation, sendMessage, retryLastMessage,      *)
(* conversation select, sample-data toggle) and the response normalizer    *)
(* parseAgentResponse.                                                     *)
(*                                                                         *)
(* Conventions.                                                            *)
(*  - A JavaScript value is a tagged record; each tag keeps its payload in *)
(*    a field of its own (s: string, n: number, b: boolean, a: array,      *)
(*    o: object).  A string is a sequence of tokens; a token is one        *)
(*    character, or an indivisible piece of text holding no leading or     *)
(*    trailing white space.  The white-space token is " ".                 *)
(*  - A property that an object does not have reads as Absent in a         *)
(*    Message (JavaScript reads it as undefined).                          *)
(*  - A handler runs to completion, React then re-renders and runs the     *)
(*    effects whose dependencies changed, in the order of declaration;     *)
(*    each action below is a handler together with that commit.            *)
(*  - Timestamps (timestamp, createdAt, updatedAt) and the input buffer    *)
(*    are not part of the model.                                           *)
(***************************************************************************)
EXTENDS Integers, Sequences, FiniteSets, TLC

\* ---------------------------------------------------------------- bounds
\* generateId() calls available to a run
MaxIds == 6
\* turns a run completes before it stops accepting submissions
MaxTurns == 1
\* conversations the collection may hold
MaxConvs == 2

\* ------------------------------------------------------- JavaScript values
Undefined == [t |-> "undefined"]
JSNull == [t |-> "null"]
Absent == [t |-> "absent"]
Bool(b) == [t |-> "boolean", b |-> b]
Num(n) == [t |-> "number", n |-> n]
Str(s) == [t |-> "string", s |-> s]
Arr(a) == [t |-> "array", a |-> a]
Obj(o) == [t |-> "object", o |-> o]

\* typeof v === 'string'
IsString(v) == v.t = "string"
\* Array.isArray(v)
IsArray(v) == v.t = "array"
\* typeof v === 'object' (null and arrays included)
TypeofObject(v) == v.t \in {"object", "array", "null"}
\* ToBoolean(v)
Truthy(v) ==
  CASE v.t \in {"undefined", "null", "absent"} -> FALSE
    [] v.t = "boolean" -> v.b
    [] v.t = "number" -> v.n # 0
    [] v.t = "string" -> Len(v.s) > 0
    [] OTHER -> TRUE
\* v.k for a value that is not null or undefined
Get(v, k) ==
  IF v.t = "object" /\ k \in DOMAIN v.o THEN v.o[k] ELSE Undefined

\* ------------------------------------------------------------- strings
IsSpace(c) == c = " "

RECURSIVE trimStart(_)
trimStart(s) ==
  IF Len(s) > 0 /\ IsSpace(Head(s)) THEN trimStart(Tail(s)) ELSE s

RECURSIVE trimEnd(_)
trimEnd(s) ==
  IF Len(s) > 0 /\ IsSpace(s[Len(s)]) THEN trimEnd(SubSeq(s, 1, Len(s) - 1)) ELSE s

\* mutant: the text is used as typed
trim_None(s) == s

\* String.prototype.trim
trim(s) == trimEnd(trimStart(s))

\* String.prototype.slice(0, n)
slice0(s, n) == IF Len(s) <= n THEN s ELSE SubSeq(s, 1, n)

\* trimmed.slice(0, 50)
TITLE_MAX == 50

\* ------------------------------------------------------------ identifiers
\* generateId(): the n-th identifier handed out; identifiers never collide
generateId(n) == <<"gen", n>>
\* null in activeConversationId
NullId == <<"null", 0>>

\* ---------------------------------------------------------------- messages
userMsg(id, trimmed) ==
  [id |-> id, role |-> "user", content |-> Str(trimmed),
   products |-> Absent, comparison |-> Absent, error |-> Absent]

\* mutant: the products are not carried over
assistantMsg_NoProducts(id, agentText, products, comparison) ==
  [id |-> id, role |-> "assistant", content |-> agentText,
   products |-> Undefined,
   comparison |-> IF comparison = JSNull THEN Undefined ELSE comparison,
   error |-> Absent]

assistantMsg(id, agentText, products, comparison) ==
  [id |-> id, role |-> "assistant", content |-> agentText,
   products |-> IF Len(products.a) > 0 THEN products ELSE Undefined,
   comparison |-> IF comparison = JSNull THEN Undefined ELSE comparison,
   error |-> Absent]

ERROR_SENTENCE == Str(<<"Something went wrong. Please try again.">>)

\* mutant: the error message is the reply of the sample data, flagged
errorMsg_WithProducts(id) ==
  [id |-> id, role |-> "assistant", content |-> ERROR_SENTENCE,
   products |-> Arr(<<Obj([name |-> Str(<<"HubSpot CRM">>)])>>),
   comparison |-> Absent, error |-> Bool(TRUE)]

\* mutant: the error message also carries the user-message shape (no flag)
errorMsg_Unflagged(id) ==
  [id |-> id, role |-> "assistant", content |-> ERROR_SENTENCE,
   products |-> Absent, comparison |-> Absent, error |-> Absent]

errorMsg(id) ==
  [id |-> id, role |-> "assistant", content |-> ERROR_SENTENCE,
   products |-> Absent, comparison |-> Absent, error |-> Bool(TRUE)]

\* m.error read as a condition
IsError(m) == Truthy(m.error)

\* ------------------------------------------------------------- sample data
HubSpot ==
  Obj([name |-> Str(<<"HubSpot CRM">>), price |-> Str(<<"Free - $45/mo">>)])
Pipedrive ==
  Obj([name |-> Str(<<"Pipedrive">>), price |-> Str(<<"$14.90/user/mo">>)])
SampleComparison ==
  Obj([attributes |-> Arr(<<Str(<<"Price">>), Str(<<"Support">>)>>),
       products |-> Arr(<<
         Obj([name |-> Str(<<"HubSpot CRM">>),
              values |-> Arr(<<Str(<<"Free - $45/mo">>), Str(<<"Community + Paid">>)>>)]),
         Obj([name |-> Str(<<"Pipedrive">>),
              values |-> Arr(<<Str(<<"$14.90/user/mo">>), Str(<<"Email + Chat">>)>>)])>>)])

SAMPLE_CONVERSATIONS ==
  << [id |-> <<"sample", 1>>,
      sessionId |-> <<"sample-session", 1>>,
      title |-> <<"CRM for small team">>,
      messages |-> <<
        [id |-> <<"sm", 1>>, role |-> "user",
         content |-> Str(<<"I need a CRM for a small team of 5 people.">>),
         products |-> Absent, comparison |-> Absent, error |-> Absent],
        [id |-> <<"sm", 2>>, role |-> "assistant",
         content |-> Str(<<"Based on your team size and needs, here are my top CRM recommendations.">>),
         products |-> Arr(<<HubSpot, Pipedrive>>),
         comparison |-> SampleComparison,
         error |-> Absent] >>] >>

\* ------------------------------------------------------------ localStorage
\* The slot LOCAL_STORAGE_KEY holds nothing (getItem returns null), or a
\* string.  A string that JSON.stringify wrote is kept as the value it
\* decodes to; the other strings of the model are the empty string, text
\* that is not JSON, and JSON text of a value that is not a list.
SlotAbsent == [kind |-> "null"]
SlotEmptyString == [kind |-> "empty"]
SlotGarbage == [kind |-> "garbage"]
SlotJSON(v) == [kind |-> "json", value |-> v]

\* a property whose value is undefined is left out by JSON.stringify
stringifyField(v) == IF v = Undefined THEN Absent ELSE v

\* mutant: the error flag is not written
stringifyMessage_DropsError(m) ==
  [id |-> m.id, role |-> m.role, content |-> m.content,
   products |-> stringifyField(m.products),
   comparison |-> stringifyField(m.comparison),
   error |-> Absent]

stringifyMessage(m) ==
  [id |-> m.id, role |-> m.role, content |-> m.content,
   products |-> stringifyField(m.products),
   comparison |-> stringifyField(m.comparison),
   error |-> stringifyField(m.error)]

stringifyConversation(c) ==
  [id |-> c.id, sessionId |-> c.sessionId, title |-> c.title,
   messages |-> [i \in DOMAIN c.messages |-> stringifyMessage(c.messages[i])]]

\* JSON.stringify(conversations)
JSONstringify(convs) ==
  SlotJSON(Arr([i \in DOMAIN convs |-> stringifyConversation(convs[i])]))

\* if (stored): a non-empty string
StoredTruthy(stored) == stored.kind \in {"garbage", "json"}
\* JSON.parse(stored) returns (does not throw)
ParseOk(stored) == stored.kind = "json"
\* JSON.parse(stored)
JSONparseStored(stored) == stored.value

\* ------------------------------------------------------- parseAgentResponse
\* JSON.parse on the text of a reply.  The JSON texts of the model and the
\* values they decode to; every other string makes JSON.parse throw.
JSON_HUBSPOT == "{\"response\":\"Try HubSpot\",\"products\":[{\"name\":\"HubSpot CRM\"}]}"
JSON_NUMBER == "42"
JSON_QUOTED == "\"quoted prose\""
JSON_NULL == "null"
JSON_TRUE == "true"
JSON_LIST == "[\"a\"]"
JSON_RAW_RESPONSE == "{\"response\":\"raw wrapper text\"}"
JSON_RAW_NESTED_STRING == "{\"response\":{\"result\":\"nested string\"}}"
JSON_RAW_NESTED_OBJECT == "{\"response\":{\"result\":{\"answer\":\"nested answer\",\"products\":[{\"name\":\"Nested\"},{\"price\":\"1\"}],\"comparison\":{\"attributes\":[\"Price\"]}}}}"
JSON_RAW_NESTED_NUMBER == "{\"response\":{\"result\":{\"response\":7}}}"

JSONTexts ==
  {JSON_HUBSPOT, JSON_NUMBER, JSON_QUOTED, JSON_NULL, JSON_TRUE, JSON_LIST,
   JSON_RAW_RESPONSE, JSON_RAW_NESTED_STRING, JSON_RAW_NESTED_OBJECT,
   JSON_RAW_NESTED_NUMBER}

JSONdecode(tok) ==
  CASE tok = JSON_HUBSPOT ->
         Obj([response |-> Str(<<"Try HubSpot">>),
              products |-> Arr(<<Obj([name |-> Str(<<"HubSpot CRM">>)])>>)])
    [] tok = JSON_NUMBER -> Num(42)
    [] tok = JSON_QUOTED -> Str(<<"quoted prose">>)
    [] tok = JSON_NULL -> JSNull
    [] tok = JSON_TRUE -> Bool(TRUE)
    [] tok = JSON_LIST -> Arr(<<Str(<<"a">>)>>)
    [] tok = JSON_RAW_RESPONSE -> Obj([response |-> Str(<<"raw wrapper text">>)])
    [] tok = JSON_RAW_NESTED_STRING ->
         Obj([response |-> Obj([result |-> Str(<<"nested string">>)])])
    [] tok = JSON_RAW_NESTED_OBJECT ->
         Obj([response |-> Obj([result |->
           Obj([answer |-> Str(<<"nested answer">>),
                products |-> Arr(<<Obj([name |-> Str(<<"Nested">>)]),
                                   Obj([price |-> Str(<<"1">>)])>>),
                comparison |-> Obj([attributes |-> Arr(<<Str(<<"Price">>)>>)])])])])
    [] tok = JSON_RAW_NESTED_NUMBER ->
         Obj([response |-> Obj([result |-> Obj([response |-> Num(7)])])])

\* JSON.parse(v): ok is FALSE when it throws.  An argument that is not a
\* string is converted to one first: a number or a boolean decodes to
\* itself, an object converts to "[object Object]", which is not JSON.
JSONparse(v) ==
  CASE v.t = "string" ->
         IF Len(v.s) = 1 /\ v.s[1] \in JSONTexts
           THEN [ok |-> TRUE, value |-> JSONdecode(v.s[1])]
           ELSE [ok |-> FALSE, value |-> Undefined]
    [] v.t \in {"number", "boolean", "null"} -> [ok |-> TRUE, value |-> v]
    [] OTHER -> [ok |-> FALSE, value |-> Undefined]

FAILURE_SENTENCE == Str(<<"Sorry, I encountered an error. Please try again.">>)
\* mutant: the final fallback leaves the text empty
FALLBACK_SENTENCE_Empty == Str(<<>>)

FALLBACK_SENTENCE == Str(<<"I received your message but couldn't format a response. Please try again.">>)

\* a || b
OrElse(a, b) == IF Truthy(a) THEN a ELSE b

\* typeof v === 'string' ? v : ''
StringOrEmpty(v) == IF IsString(v) THEN v ELSE Str(<<>>)

\* (p) => p && typeof p.name === 'string'
HasStringName(p) == Truthy(p) /\ IsString(Get(p, "name"))

\* list.filter((p) => p && typeof p.name === 'string')
filterProducts(list) == Arr(SelectSeq(list.a, HasStringName))

\* mutant: message is probed before response
candidateText_MessageFirst(parsed) ==
  LET t1 == StringOrEmpty(Get(parsed, "message"))
      t2 == IF ~Truthy(t1) THEN StringOrEmpty(Get(parsed, "response")) ELSE t1
      t3 == IF ~Truthy(t2) THEN StringOrEmpty(Get(parsed, "text")) ELSE t2
      t4 == IF ~Truthy(t3) THEN StringOrEmpty(Get(parsed, "answer")) ELSE t3
      t5 == IF ~Truthy(t4) THEN StringOrEmpty(Get(parsed, "content")) ELSE t4
  IN t5

\* the text of a candidate object: response, text, message, answer, content
candidateText(parsed) ==
  LET t1 == StringOrEmpty(Get(parsed, "response"))
      t2 == IF ~Truthy(t1) THEN StringOrEmpty(Get(parsed, "text")) ELSE t1
      t3 == IF ~Truthy(t2) THEN StringOrEmpty(Get(parsed, "message")) ELSE t2
      t4 == IF ~Truthy(t3) THEN StringOrEmpty(Get(parsed, "answer")) ELSE t3
      t5 == IF ~Truthy(t4) THEN StringOrEmpty(Get(parsed, "content")) ELSE t4
  IN t5

candidateProducts(parsed) ==
  IF IsArray(Get(parsed, "products"))
    THEN filterProducts(Get(parsed, "products"))
    ELSE Arr(<<>>)

candidateComparison(parsed) ==
  LET c == Get(parsed, "comparison")
  IN IF Truthy(c) /\ TypeofObject(c) /\ ~IsArray(c) /\ IsArray(Get(c, "attributes"))
       THEN c ELSE JSNull

\* the raw_response fallback: the state (text, products, comparison) after it
rawResponseFallback(result, st) ==
  LET raw_response == Get(result, "raw_response")
      p == JSONparse(raw_response)
      rawParsed == p.value
      rresp == IF rawParsed.t \in {"null", "undefined"}
                 THEN Undefined ELSE Get(rawParsed, "response")
      innerResult == IF rresp.t \in {"null", "undefined"}
                       THEN Undefined ELSE Get(rresp, "result")
  IN IF ~p.ok
       THEN IF IsString(raw_response) /\ Len(raw_response.s) > 0
              THEN [st EXCEPT !.text = raw_response]
              ELSE st
     ELSE IF IsString(rawParsed)
       THEN [st EXCEPT !.text = rawParsed]
     ELSE IF Truthy(rresp) /\ IsString(rresp)
       THEN [st EXCEPT !.text = rresp]
     ELSE IF Truthy(innerResult)
       THEN IF IsString(innerResult)
              THEN [st EXCEPT !.text = innerResult]
            ELSE IF TypeofObject(innerResult)
              THEN LET ic == Get(innerResult, "comparison")
                   IN [text |-> OrElse(Get(innerResult, "response"),
                                 OrElse(Get(innerResult, "text"),
                                  OrElse(Get(innerResult, "message"), Str(<<>>)))),
                       products |->
                         IF Len(st.products.a) = 0 /\ IsArray(Get(innerResult, "products"))
                           THEN filterProducts(Get(innerResult, "products"))
                           ELSE st.products,
                       comparison |->
                         IF ~Truthy(st.comparison) /\ Truthy(ic) /\ TypeofObject(ic)
                            /\ IsArray(Get(ic, "attributes"))
                           THEN ic ELSE st.comparison]
            ELSE st
     ELSE st

parseAgentResponse(result) ==
  IF ~Truthy(result) \/ ~Truthy(Get(result, "success")) \/ ~Truthy(Get(result, "response"))
    THEN [text |-> OrElse(IF Truthy(result) THEN Get(result, "error") ELSE Undefined,
                          FAILURE_SENTENCE),
          products |-> Arr(<<>>), comparison |-> JSNull]
    ELSE
      LET response == Get(result, "response")
          raw == Get(response, "result")
          rawIsObject == Truthy(raw) /\ TypeofObject(raw) /\ ~IsArray(raw)
          jp == JSONparse(raw)
          \* parsed: null unless raw is an object or a string that decodes
          parsed == IF rawIsObject THEN raw
                    ELSE IF IsString(raw) /\ jp.ok THEN jp.value
                    ELSE JSNull
          \* text = raw when JSON.parse threw
          text0 == IF ~rawIsObject /\ IsString(raw) /\ ~jp.ok THEN raw ELSE Str(<<>>)
          st1 == IF Truthy(parsed) /\ TypeofObject(parsed)
                   THEN [text |-> candidateText(parsed),
                         products |-> candidateProducts(parsed),
                         comparison |-> candidateComparison(parsed)]
                   ELSE [text |-> text0, products |-> Arr(<<>>), comparison |-> JSNull]
          st2 == IF ~Truthy(st1.text)
                   THEN [st1 EXCEPT !.text = OrElse(Get(response, "message"), Str(<<>>))]
                   ELSE st1
          st3 == IF ~Truthy(st2.text) /\ Truthy(Get(result, "raw_response"))
                   THEN rawResponseFallback(result, st2)
                   ELSE st2
          st4 == IF ~Truthy(st3.text)
                   THEN [st3 EXCEPT !.text = FALLBACK_SENTENCE]
                   ELSE st3
      IN st4

\* ------------------------------------------------------------------ inputs
\* texts the user submits: empty, white space only, padded, plain, and one
\* longer than a title
LONG_TEXT == [i \in 1..(TITLE_MAX + 2) |-> IF i = 3 THEN " " ELSE "x"]
Texts == {<<>>, <<" ", " ">>, <<" ", "h", "i", " ">>, LONG_TEXT}

\* AIAgentResponse values callAIAgent resolves with
REPLY_FAILED ==
  Obj([success |-> Bool(FALSE), error |-> Str(<<"upstream 502: gateway detail">>)])
REPLY_NO_PAYLOAD == Obj([success |-> Bool(TRUE)])
REPLY_OBJECT ==
  Obj([success |-> Bool(TRUE),
       response |-> Obj([status |-> Str(<<"success">>),
         result |-> Obj([response |-> Str(<<"Try HubSpot">>),
                         message |-> Str(<<"ignored message">>),
                         products |-> Arr(<<HubSpot, Obj([price |-> Str(<<"$1">>)])>>),
                         comparison |-> SampleComparison])])])

\* the outcomes a turn of the flow distinguishes: a failure with a detail, an
\* empty reply, a structured reply
GatewayReplies == {REPLY_FAILED, REPLY_NO_PAYLOAD, REPLY_OBJECT}

\* a conversation an earlier run of the program persisted: one failed turn
PERSISTED_CONVERSATION ==
  [id |-> <<"old", 1>>, sessionId |-> <<"old-session", 1>>,
   title |-> <<"h", "i">>,
   messages |-> << userMsg(<<"old-msg", 1>>, <<"h", "i">>), errorMsg(<<"old-msg", 2>>) >>]

\* a conversation an earlier run persisted: a failed turn that was not
\* retried, followed by another failed turn
PERSISTED_TWO_FAILURES ==
  [id |-> <<"old", 2>>, sessionId |-> <<"old-session", 2>>,
   title |-> <<"h", "i">>,
   messages |-> << userMsg(<<"old-msg", 3>>, <<"h", "i">>), errorMsg(<<"old-msg", 4>>),
                   userMsg(<<"old-msg", 5>>, <<"again">>), errorMsg(<<"old-msg", 6>>) >>]

\* what the slot may hold when the page is opened
InitialSlots ==
  {SlotAbsent, SlotEmptyString, SlotGarbage,
   SlotJSON(Obj([version |-> Num(1)])),
   SlotJSON(Arr(<<>>)),
   JSONstringify(<<PERSISTED_CONVERSATION>>),
   JSONstringify(<<PERSISTED_TWO_FAILURES>>)}

\* the slots the page is also opened with while setItem throws
ReadOnlySlots == {SlotAbsent, JSONstringify(<<PERSISTED_CONVERSATION>>)}

\* ------------------------------------------------------------------- state
VARIABLES
  conversations,         \* useState<Conversation[]>
  activeConversationId,  \* useState<string | null>
  isLoading,             \* useState(false)
  sampleDataOn,          \* useState(false)
  localStorage,          \* the slot LOCAL_STORAGE_KEY
  storageWritable,       \* FALSE: localStorage.setItem throws
  mounted,               \* the mount effects have run
  pending,               \* callAIAgent calls awaiting their outcome
  nextId,                \* generateId() calls made so far, plus one
  turns,                 \* turns completed so far
  setProcessingIssued,   \* argument of the last setProcessing call
  lastEvent,             \* the handler that ran last, and how it ended
  rawReply,              \* parseAgentResponse: its argument result
  normalized             \* parseAgentResponse: the value it returned

vars ==
  <<conversations, activeConversationId, isLoading, sampleDataOn, localStorage,
    storageWritable, mounted, pending, nextId, turns, setProcessingIssued, lastEvent,
    rawReply, normalized>>

\* the variables of a call of parseAgentResponse on its own
normalizerVars == <<rawReply, normalized>>

\* normalized before parseAgentResponse has returned
NotReturned == [text |-> Undefined, products |-> Arr(<<>>), comparison |-> JSNull,
                returned |-> FALSE]

\* result: the text handed to sendMessage, or the value callAIAgent resolved
\* with
Event(op, outcome, convId, threw, result) ==
  [op |-> op, outcome |-> outcome, convId |-> convId, threw |-> threw,
   result |-> result]

\* ----------------------------------------------------------------- lookups
ConvIds(convs) == {convs[i].id : i \in DOMAIN convs}

\* conversations.find((c) => c.id === id) ?? null, as an index (0: null)
FindIndex(convs, id) ==
  IF \E i \in DOMAIN convs : convs[i].id = id
    THEN CHOOSE i \in DOMAIN convs :
           convs[i].id = id /\ \A j \in DOMAIN convs : convs[j].id = id => i <= j
    ELSE 0

\* mutant: a conversation that is not there is created for the message
appendTo_Upsert(prev, convId, msg) ==
  IF \E i \in DOMAIN prev : prev[i].id = convId
    THEN [i \in DOMAIN prev |->
            IF prev[i].id # convId THEN prev[i]
            ELSE [prev[i] EXCEPT !.messages = Append(@, msg)]]
    ELSE <<[id |-> convId, sessionId |-> convId, title |-> <<"New Conversation">>,
            messages |-> <<msg>>]>> \o prev

\* mutant: the message is put before the others
appendTo_Prepends(prev, convId, msg) ==
  [i \in DOMAIN prev |->
     IF prev[i].id # convId THEN prev[i]
     ELSE [prev[i] EXCEPT !.messages = <<msg>> \o @]]

\* prev.map((c) => c.id !== convId ? c : f(c)) with f appending msg
appendTo(prev, convId, msg) ==
  [i \in DOMAIN prev |->
     IF prev[i].id # convId THEN prev[i]
     ELSE [prev[i] EXCEPT !.messages = Append(@, msg)]]

\* mutant: the title is set by every user message
appendUserMsg_AlwaysRetitles(prev, convId, msg, trimmed) ==
  [i \in DOMAIN prev |->
     IF prev[i].id # convId THEN prev[i]
     ELSE [prev[i] EXCEPT
             !.title = slice0(trimmed, TITLE_MAX),
             !.messages = Append(@, msg)]]

\* the user-message append of sendMessage: the title follows a first message
appendUserMsg(prev, convId, msg, trimmed) ==
  [i \in DOMAIN prev |->
     IF prev[i].id # convId THEN prev[i]
     ELSE [prev[i] EXCEPT
             !.title = IF Len(prev[i].messages) = 0
                         THEN slice0(trimmed, TITLE_MAX) ELSE @,
             !.messages = Append(@, msg)]]

\* mutant: the retry drops the failed turn whole, its user message included
removeErrors_AndLastTurn(prev, convId) ==
  [i \in DOMAIN prev |->
     IF prev[i].id # convId THEN prev[i]
     ELSE [prev[i] EXCEPT
             !.messages = SubSeq(SelectSeq(@, LAMBDA m : ~IsError(m)), 1,
                                 Len(SelectSeq(@, LAMBDA m : ~IsError(m))) - 1)]]

\* c.messages.filter((m) => !m.error) on the conversation convId
removeErrors(prev, convId) ==
  [i \in DOMAIN prev |->
     IF prev[i].id # convId THEN prev[i]
     ELSE [prev[i] EXCEPT !.messages = SelectSeq(@, LAMBDA m : ~IsError(m))]]

\* ----------------------------------------------------------------- effects
\* mutant: the slot is written only while it holds nothing
saveEffect_OnlyFirst(convs, sample, slot, writable) ==
  IF Len(convs) > 0 /\ ~sample /\ writable /\ ~StoredTruthy(slot)
    THEN JSONstringify(convs) ELSE slot

\* save effect: deps [conversations, sampleDataOn]
saveEffect(convs, sample, slot, writable) ==
  IF Len(convs) > 0 /\ ~sample /\ writable THEN JSONstringify(convs) ELSE slot

\* the list the slot decodes to, or "none"
storedList(slot) ==
  IF StoredTruthy(slot) /\ ParseOk(slot) /\ IsArray(JSONparseStored(slot))
    THEN [some |-> TRUE, list |-> JSONparseStored(slot).a]
    ELSE [some |-> FALSE, list |-> <<>>]

\* load effect (mount): state after it, given the state before
loadEffect(convs, active, slot) ==
  LET st == storedList(slot)
  IN IF st.some /\ Len(st.list) > 0
       THEN [conversations |-> st.list, activeConversationId |-> st.list[1].id]
       ELSE [conversations |-> convs, activeConversationId |-> active]

\* mutant: the fallback branch leaves the pointer on the sample conversation
sampleToggleEffect_StalePointer(sample, slot) ==
  IF sample
    THEN [conversations |-> SAMPLE_CONVERSATIONS,
          activeConversationId |-> SAMPLE_CONVERSATIONS[1].id]
    ELSE LET st == storedList(slot)
         IN IF st.some
              THEN [conversations |-> st.list,
                    activeConversationId |->
                      IF Len(st.list) > 0 THEN st.list[1].id ELSE NullId]
              ELSE [conversations |-> <<>>,
                    activeConversationId |-> SAMPLE_CONVERSATIONS[1].id]

\* sample data toggle effect: deps [sampleDataOn]
sampleToggleEffect(sample, slot) ==
  IF sample
    THEN [conversations |-> SAMPLE_CONVERSATIONS,
          activeConversationId |-> SAMPLE_CONVERSATIONS[1].id]
    ELSE LET st == storedList(slot)
         IN IF st.some
              THEN [conversations |-> st.list,
                    activeConversationId |->
                      IF Len(st.list) > 0 THEN st.list[1].id ELSE NullId]
              ELSE [conversations |-> <<>>, activeConversationId |-> NullId]

\* The commit that follows a handler: the effects whose dependencies changed
\* run in the order of declaration (save, then sample toggle); the state the
\* toggle effect sets is committed in turn and the save effect runs again.
commit(convs, active, sample, slot, writable, convsChanged, sampleChanged) ==
  LET slot1 == IF convsChanged \/ sampleChanged
                 THEN saveEffect(convs, sample, slot, writable) ELSE slot
  IN IF sampleChanged
       THEN LET t == sampleToggleEffect(sample, slot1)
            IN [conversations |-> t.conversations,
                activeConversationId |-> t.activeConversationId,
                localStorage |-> saveEffect(t.conversations, sample, slot1, writable)]
       ELSE [conversations |-> convs, activeConversationId |-> active,
             localStorage |-> slot1]

\* ----------------------------------------------------------------- actions
Init ==
  /\ conversations = <<>>
  /\ activeConversationId = NullId
  /\ isLoading = FALSE
  /\ sampleDataOn = FALSE
  /\ localStorage \in InitialSlots
  /\ storageWritable \in (IF localStorage \in ReadOnlySlots THEN BOOLEAN ELSE {TRUE})
  /\ mounted = FALSE
  /\ pending = {}
  /\ nextId = 1
  /\ turns = 0
  /\ setProcessingIssued = "none"
  /\ lastEvent = Event("init", "none", NullId, FALSE, Undefined)
  /\ rawReply = Undefined
  /\ normalized = NotReturned

\* The effects of the first commit: load, save (conversations is still
\* empty), sample toggle; their state updates are applied in that order and
\* committed, and the save effect runs on the result.
Mount ==
  /\ ~mounted
  /\ LET l == loadEffect(conversations, activeConversationId, localStorage)
         slot1 == saveEffect(conversations, sampleDataOn, localStorage, storageWritable)
         t == sampleToggleEffect(sampleDataOn, slot1)
     IN /\ conversations' = t.conversations
        /\ activeConversationId' = t.activeConversationId
        /\ localStorage' = saveEffect(t.conversations, sampleDataOn, slot1, storageWritable)
        /\ lastEvent' = Event("mount", IF Len(l.conversations) > 0
                                         THEN "loaded" ELSE "empty",
                              NullId, FALSE, Undefined)
  /\ mounted' = TRUE
  /\ UNCHANGED <<isLoading, sampleDataOn, storageWritable, pending, nextId,
                 turns, setProcessingIssued>>
  /\ UNCHANGED normalizerVars

\* try { agentActivityRef.current.setProcessing(x) } catch {}: whether a
\* throwing observer ends the handler
setProcessingAborts(threw) == FALSE

\* mutant: the isLoading guard is missing
sendMessageRejects_NoBusyGuard(trimmed, loading) == Len(trimmed) = 0

\* if (!trimmed || isLoading) return
sendMessageRejects(trimmed, loading) == Len(trimmed) = 0 \/ loading

\* mutant: sessionId is not reassigned when a conversation is created
sessionIdOfTurn_NotReassigned(create, newSessionId, sessionId0) == sessionId0

\* let sessionId = activeConversation?.sessionId ?? generateId(), reassigned
\* to newConv.sessionId when the conversation is created
sessionIdOfTurn(create, newSessionId, sessionId0) ==
  IF create THEN newSessionId ELSE sessionId0

\* sendMessage up to the await, on the updater base prev (conversations, or
\* what retryLastMessage has queued): the updates it queues and the call
sendMessageCore(prev, text) ==
  LET trimmed == trim(text)
      ai == FindIndex(conversations, activeConversationId)
      sessionId0 == IF ai # 0 THEN conversations[ai].sessionId ELSE generateId(nextId)
      n1 == IF ai # 0 THEN nextId ELSE nextId + 1
      create == activeConversationId = NullId
      newConv == [id |-> generateId(n1), sessionId |-> generateId(n1 + 1),
                  title |-> slice0(trimmed, TITLE_MAX), messages |-> <<>>]
      n2 == IF create THEN n1 + 2 ELSE n1
      convId == IF create THEN newConv.id ELSE activeConversationId
      sessionId == sessionIdOfTurn(create, newConv.sessionId, sessionId0)
      prev1 == IF create THEN <<newConv>> \o prev ELSE prev
      msg == userMsg(generateId(n2), trimmed)
  IN [accepted |-> ~sendMessageRejects(trimmed, isLoading),
      text |-> text,
      conversations |-> appendUserMsg(prev1, convId, msg, trimmed),
      activeConversationId |-> convId,
      nextId |-> n2 + 1,
      call |-> [convId |-> convId, sessionId |-> sessionId,
                message |-> trimmed, turn |-> msg.id]]

\* the state change of an accepted submission r
startTurn(r, threw, op) ==
  /\ r.nextId + Cardinality(pending) <= MaxIds
  /\ turns < MaxTurns
  /\ Len(r.conversations) <= MaxConvs
  /\ LET c == commit(r.conversations, r.activeConversationId, sampleDataOn,
                     localStorage, storageWritable, TRUE, FALSE)
     IN /\ conversations' = c.conversations
        /\ activeConversationId' = c.activeConversationId
        /\ localStorage' = c.localStorage
  /\ isLoading' = TRUE
  /\ setProcessingIssued' = "true"
  /\ pending' = IF setProcessingAborts(threw) THEN pending ELSE pending \cup {r.call}
  /\ nextId' = r.nextId
  /\ lastEvent' = Event(op, "accepted", r.call.convId, threw, Str(r.text))
  /\ UNCHANGED <<sampleDataOn, storageWritable, mounted, turns>>

sendMessage(text, threw) ==
  /\ mounted
  /\ UNCHANGED normalizerVars
  /\ LET r == sendMessageCore(conversations, text)
     IN IF r.accepted
          THEN startTurn(r, threw, "sendMessage")
          ELSE /\ lastEvent' = Event("sendMessage",
                                     IF isLoading THEN "rejected-busy" ELSE "rejected-empty",
                                     NullId, FALSE, Str(text))
               /\ UNCHANGED <<conversations, activeConversationId, isLoading,
                              sampleDataOn, localStorage, storageWritable, mounted,
                              pending, nextId, turns, setProcessingIssued>>

\* JSON.stringify(result).substring(0, 500) throws on an undefined result
logThrows(result) == result = Undefined

\* the message the try branch builds
replyMsg(id, result) ==
  LET r == parseAgentResponse(result)
  IN assistantMsg(id, r.text, r.products, r.comparison)

\* mutant: the reply goes to the conversation active at arrival
replyTarget_Active(call, active) == active

\* the conversation the reply or error message is appended to
replyTarget(call, active) == call.convId

\* mutant: the loading flag is not cleared
loadingAfterTurn_Kept(loading) == loading

\* finally { setIsLoading(false) ... }
loadingAfterTurn(loading) == FALSE

\* the continuation of sendMessage after the await: msg is appended, the
\* finally block runs, the result is committed
settle(call, msg, op, outcome, threw, result) ==
  /\ LET c == commit(appendTo(conversations, replyTarget(call, activeConversationId), msg),
                     activeConversationId, sampleDataOn,
                     localStorage, storageWritable, TRUE, FALSE)
     IN /\ conversations' = c.conversations
        /\ activeConversationId' = c.activeConversationId
        /\ localStorage' = c.localStorage
  /\ isLoading' = loadingAfterTurn(isLoading)
  /\ setProcessingIssued' = "false"
  /\ pending' = pending \ {call}
  /\ nextId' = nextId + 1
  /\ lastEvent' = Event(op, outcome, call.convId, threw, result)
  /\ turns' = turns + 1
  /\ UNCHANGED <<sampleDataOn, storageWritable, mounted>>
  /\ UNCHANGED normalizerVars

\* callAIAgent resolves with result
GatewayResolve(call, result, threw) ==
  /\ call \in pending
  /\ IF logThrows(result)
       THEN settle(call, errorMsg(generateId(nextId)), "resolve", "error", threw, result)
       ELSE settle(call, replyMsg(generateId(nextId), result), "resolve", "reply", threw,
                   result)

\* callAIAgent rejects
GatewayReject(call, threw) ==
  /\ call \in pending
  /\ settle(call, errorMsg(generateId(nextId)), "reject", "error", threw, Undefined)

createNewConversation ==
  /\ mounted
  /\ nextId + 1 + Cardinality(pending) <= MaxIds
  /\ Len(conversations) < MaxConvs
  /\ LET newConv == [id |-> generateId(nextId), sessionId |-> generateId(nextId + 1),
                     title |-> <<"New Conversation">>, messages |-> <<>>]
         c == commit(<<newConv>> \o conversations, newConv.id, sampleDataOn,
                     localStorage, storageWritable, TRUE, FALSE)
     IN /\ conversations' = c.conversations
        /\ activeConversationId' = c.activeConversationId
        /\ localStorage' = c.localStorage
        /\ lastEvent' = Event("createNewConversation", "created", newConv.id, FALSE, Undefined)
  /\ nextId' = nextId + 2
  /\ UNCHANGED <<isLoading, sampleDataOn, storageWritable, mounted, pending,
                 turns, setProcessingIssued>>
  /\ UNCHANGED normalizerVars

\* onClick of a conversation in the sidebar
selectConversation(i) ==
  /\ mounted
  /\ i \in DOMAIN conversations
  /\ activeConversationId' = conversations[i].id
  /\ lastEvent' = Event("selectConversation", "selected", conversations[i].id, FALSE, Undefined)
  /\ UNCHANGED <<conversations, isLoading, sampleDataOn, localStorage,
                 storageWritable, mounted, pending, nextId, turns, setProcessingIssued>>
  /\ UNCHANGED normalizerVars

\* onClick of the Sample Data switch: setSampleDataOn(!sampleDataOn)
toggleSampleData ==
  /\ mounted
  /\ sampleDataOn' = ~sampleDataOn
  /\ LET c == commit(conversations, activeConversationId, ~sampleDataOn,
                     localStorage, storageWritable, FALSE, TRUE)
     IN /\ conversations' = c.conversations
        /\ activeConversationId' = c.activeConversationId
        /\ localStorage' = c.localStorage
  /\ lastEvent' = Event("toggleSampleData", IF sampleDataOn THEN "off" ELSE "on",
                        NullId, FALSE, Undefined)
  /\ UNCHANGED <<isLoading, storageWritable, mounted, pending, nextId,
                 turns, setProcessingIssued>>
  /\ UNCHANGED normalizerVars

\* the Retry button is rendered: not loading, the last message of the active
\* conversation is an error message
retryOffered ==
  LET ai == FindIndex(conversations, activeConversationId)
  IN /\ ~isLoading
     /\ ai # 0
     /\ Len(conversations[ai].messages) > 0
     /\ IsError(conversations[ai].messages[Len(conversations[ai].messages)])

\* [...msgs].reverse().find((m) => m.role === 'user'), as an index (0: none)
lastUserIndex(msgs) ==
  IF \E i \in DOMAIN msgs : msgs[i].role = "user"
    THEN CHOOSE i \in DOMAIN msgs :
           msgs[i].role = "user" /\ \A j \in DOMAIN msgs : msgs[j].role = "user" => j <= i
    ELSE 0

retryLastMessage(threw) ==
  /\ mounted
  /\ retryOffered
  /\ UNCHANGED normalizerVars
  /\ LET ai == FindIndex(conversations, activeConversationId)
         msgs == conversations[ai].messages
         ui == lastUserIndex(msgs)
     IN IF Len(msgs) < 2 \/ ui = 0
          THEN /\ lastEvent' = Event("retryLastMessage", "nothing", NullId, FALSE, Undefined)
               /\ UNCHANGED <<conversations, activeConversationId, isLoading,
                              sampleDataOn, localStorage, storageWritable, mounted,
                              pending, nextId, turns, setProcessingIssued>>
          ELSE LET filtered == removeErrors(conversations, activeConversationId)
                   r == sendMessageCore(filtered, msgs[ui].content.s)
               IN IF r.accepted
                    THEN startTurn(r, threw, "retryLastMessage")
                    ELSE LET c == commit(filtered, activeConversationId, sampleDataOn,
                                         localStorage, storageWritable, TRUE, FALSE)
                         IN /\ conversations' = c.conversations
                            /\ activeConversationId' = c.activeConversationId
                            /\ localStorage' = c.localStorage
                            /\ lastEvent' = Event("retryLastMessage", "rejected",
                                                  NullId, FALSE, Undefined)
                            /\ UNCHANGED <<isLoading, sampleDataOn, storageWritable,
                                           mounted, pending, nextId, turns, setProcessingIssued>>

Next ==
  \/ Mount
  \/ \E text \in Texts, threw \in BOOLEAN : sendMessage(text, threw)
  \/ \E call \in pending, result \in GatewayReplies, threw \in BOOLEAN :
       GatewayResolve(call, result, threw)
  \/ \E call \in pending, threw \in BOOLEAN : GatewayReject(call, threw)
  \/ createNewConversation
  \/ \E i \in 1..MaxConvs : selectConversation(i)
  \/ toggleSampleData
  \/ \E threw \in BOOLEAN : retryLastMessage(threw)

Spec == Init /\ [][Next]_vars

\* ------------------------------------------- parseAgentResponse on its own
\* o with the property k set to v; o itself when v is Absent
WithField(o, k, v) ==
  IF v = Absent THEN o
  ELSE [x \in (DOMAIN o) \cup {k} |-> IF x = k THEN v ELSE o[x]]

\* candidate objects: response.result as an object
CAND_RESPONSE_AND_MESSAGE ==
  Obj([response |-> Str(<<"from response">>), message |-> Str(<<"from message">>),
       products |-> Arr(<<Obj([name |-> Str(<<"Alpha">>), price |-> Str(<<"$1">>)]),
                          Obj([price |-> Str(<<"$2">>)]),
                          Obj([name |-> Num(3)]),
                          Obj([name |-> Str(<<>>)]),
                          JSNull,
                          Obj([name |-> Str(<<"Beta">>)])>>),
       comparison |-> SampleComparison])
CAND_EMPTY_RESPONSE_THEN_TEXT ==
  Obj([response |-> Str(<<>>), text |-> Str(<<"from text">>),
       answer |-> Str(<<"from answer">>),
       products |-> Str(<<"not a list">>),
       comparison |-> Arr(<<Str(<<"Price">>)>>)])
CAND_NUMBER_RESPONSE_THEN_ANSWER ==
  Obj([response |-> Num(3), answer |-> Str(<<"from answer">>),
       content |-> Str(<<"from content">>),
       comparison |-> Obj([attributes |-> Str(<<"Price">>)])])
CAND_CONTENT == Obj([content |-> Str(<<"from content">>)])
CAND_NO_TEXT ==
  Obj([products |-> Arr(<<Obj([name |-> Str(<<"Alpha">>)])>>),
       comparison |-> SampleComparison])
CAND_UNKNOWN_KEYS == Obj([reply |-> Str(<<"under an unknown key">>)])

\* response.result: not there, strings (empty, prose, JSON text of a scalar,
\* of a list, of an object), a number, a list, candidate objects
ResultValues ==
  {Absent, Str(<<>>), Str(<<"plain prose answer">>),
   Str(<<JSON_NUMBER>>), Str(<<JSON_TRUE>>), Str(<<JSON_NULL>>), Str(<<JSON_QUOTED>>),
   Str(<<JSON_LIST>>), Str(<<JSON_HUBSPOT>>),
   Num(5), Arr(<<Str(<<"a">>)>>),
   CAND_RESPONSE_AND_MESSAGE, CAND_EMPTY_RESPONSE_THEN_TEXT,
   CAND_NUMBER_RESPONSE_THEN_ANSWER, CAND_CONTENT, CAND_NO_TEXT, CAND_UNKNOWN_KEYS}

\* response.message
MessageValues == {Absent, Str(<<"status message">>)}

\* raw_response: not there, or a string (empty, not JSON, JSON text)
RawResponseValues ==
  {Absent, Str(<<>>), Str(<<"raw text, not JSON">>),
   Str(<<JSON_QUOTED>>), Str(<<JSON_NUMBER>>), Str(<<JSON_NULL>>),
   Str(<<JSON_RAW_RESPONSE>>), Str(<<JSON_RAW_NESTED_STRING>>),
   Str(<<JSON_RAW_NESTED_OBJECT>>), Str(<<JSON_RAW_NESTED_NUMBER>>)}

\* a reply with a payload
PayloadReply(result, message, raw_response) ==
  Obj(WithField(
        [success |-> Bool(TRUE),
         response |-> Obj(WithField(WithField([status |-> Str(<<"success">>)],
                                              "result", result),
                                    "message", message))],
        "raw_response", raw_response))

\* the values parseAgentResponse is called with: no value, failure outcomes
\* with and without a detail, a reply without payload, replies with a payload
Replies ==
  {Undefined, JSNull, REPLY_FAILED, REPLY_NO_PAYLOAD, REPLY_OBJECT,
   Obj([success |-> Bool(FALSE)])}
  \cup {PayloadReply(r, m, rr) :
          r \in ResultValues, m \in MessageValues, rr \in RawResponseValues}

\* parseAgentResponse is about to be called with a reply
NormalizerInit ==
  /\ conversations = <<>>
  /\ activeConversationId = NullId
  /\ isLoading = FALSE
  /\ sampleDataOn = FALSE
  /\ localStorage = SlotAbsent
  /\ storageWritable = TRUE
  /\ mounted = FALSE
  /\ pending = {}
  /\ nextId = 1
  /\ turns = 0
  /\ setProcessingIssued = "none"
  /\ lastEvent = Event("init", "none", NullId, FALSE, Undefined)
  /\ rawReply \in Replies
  /\ normalized = NotReturned

\* parseAgentResponse(result) runs and returns
Normalize ==
  /\ ~normalized.returned
  /\ LET r == parseAgentResponse(rawReply)
     IN normalized' = [text |-> r.text, products |-> r.products,
                       comparison |-> r.comparison, returned |-> TRUE]
  /\ UNCHANGED <<conversations, activeConversationId, isLoading, sampleDataOn,
                 localStorage, storageWritable, mounted, pending, nextId, turns,
                 setProcessingIssued, lastEvent, rawReply>>

NormalizerNext == Normalize

NormalizerSpec == NormalizerInit /\ [][NormalizerNext]_vars

\* ------------------------------------------------------------ properties
\* the messages of the conversation id in convs (none when it is not there)
MessagesOf(convs, id) ==
  IF FindIndex(convs, id) = 0 THEN <<>> ELSE convs[FindIndex(convs, id)].messages

Present(convs, id) == FindIndex(convs, id) # 0

UserCount(msgs) == Cardinality({i \in DOMAIN msgs : msgs[i].role = "user"})

\* every conversation other than id is in convs2 what it is in convs1
OthersUnchanged(convs1, convs2, id) ==
  /\ ConvIds(convs2) = ConvIds(convs1)
  /\ \A i \in DOMAIN convs1 :
       convs1[i].id # id => convs2[FindIndex(convs2, convs1[i].id)] = convs1[i]

\* a turn ended in this step
Settled == lastEvent'.op \in {"resolve", "reject"}

\* C1: while a turn is in flight a submission through sendMessage changes
\* nothing (no message, no conversation, no gateway call), and at most one
\* gateway call is outstanding at any time.
C1_SingleFlight ==
  /\ [](Cardinality(pending) <= 1)
  /\ [][(isLoading /\ lastEvent'.op = "sendMessage")
          => UNCHANGED <<conversations, activeConversationId, isLoading, pending,
                         localStorage, nextId>>]_vars

C1_Witness ==
  /\ lastEvent.op = "sendMessage"
  /\ lastEvent.outcome = "rejected-busy"
  /\ Cardinality(pending) = 1
  /\ Len(conversations) = 2

\* C2 (as claimed): a retry removes the error message and leaves the number
\* of user messages of the conversation what it was.
C2_RetryKeepsUserCount ==
  [][(lastEvent'.op = "retryLastMessage" /\ lastEvent'.outcome = "accepted")
       => LET before == MessagesOf(conversations, lastEvent'.convId)
              after == MessagesOf(conversations', lastEvent'.convId)
          IN /\ \A i \in DOMAIN after : ~IsError(after[i])
             /\ UserCount(after) = UserCount(before)]_vars

\* C3 (as claimed): the slot is left alone while sample data is on, and
\* switching it off makes the collection the list the slot held (empty, with
\* no active conversation, when it held none) and its first entry active.
C3_DisableRestoresPersisted ==
  /\ [][(sampleDataOn /\ sampleDataOn') => localStorage' = localStorage]_vars
  /\ [][(sampleDataOn /\ ~sampleDataOn')
          => /\ conversations' = storedList(localStorage).list
             /\ activeConversationId' =
                  IF Len(storedList(localStorage).list) > 0
                    THEN storedList(localStorage).list[1].id ELSE NullId]_vars

\* C4 (as claimed): the slot never holds a conversation of the sample data.
C4_SampleNeverPersisted ==
  \A i \in DOMAIN storedList(localStorage).list :
    storedList(localStorage).list[i].id \notin ConvIds(SAMPLE_CONVERSATIONS)

\* C5 (as claimed): a rejected gateway call adds exactly one message to the
\* conversation of the turn.
C5_RejectAppendsOne ==
  [][lastEvent'.op = "reject"
       => Len(MessagesOf(conversations', lastEvent'.convId))
            = Len(MessagesOf(conversations, lastEvent'.convId)) + 1]_vars

\* C5 (amended): when the gateway call rejects and the conversation of the
\* turn is still in the collection, its messages are the former ones followed
\* by one assistant message with error = true, the fixed sentence, no
\* products and no comparison; when it is gone, no message is added anywhere.
C5_RejectAppendsOneIfPresent ==
  [][lastEvent'.op = "reject"
       => LET id == lastEvent'.convId
              before == MessagesOf(conversations, id)
              after == MessagesOf(conversations', id)
          IN /\ OthersUnchanged(conversations, conversations', id)
             /\ IF Present(conversations, id)
                  THEN /\ Len(after) = Len(before) + 1
                       /\ SubSeq(after, 1, Len(before)) = before
                       /\ after[Len(after)].role = "assistant"
                       /\ after[Len(after)].error = Bool(TRUE)
                       /\ after[Len(after)].content
                            = Str(<<"Something went wrong. Please try again.">>)
                       /\ ~Truthy(after[Len(after)].products)
                       /\ ~Truthy(after[Len(after)].comparison)
                  ELSE after = before]_vars

C5_Witness ==
  /\ lastEvent.op = "reject"
  /\ Present(conversations, lastEvent.convId)
  /\ IsError(MessagesOf(conversations, lastEvent.convId)
               [Len(MessagesOf(conversations, lastEvent.convId))])
  /\ ~isLoading

\* the reply is a failure outcome: success false, or no response payload
FailureOutcome(result) ==
  ~Truthy(Get(result, "success")) \/ ~Truthy(Get(result, "response"))

\* C6 (as claimed): a turn whose call rejects or resolves with a failure
\* outcome ends with one error-flagged assistant message carrying the fixed
\* sentence, and the failure detail of the gateway is never a message content.
C6_FailureIsErrorMessage ==
  /\ [][(Settled /\ Present(conversations, lastEvent'.convId)
          /\ (lastEvent'.op = "reject" \/ FailureOutcome(lastEvent'.result)))
         => LET after == MessagesOf(conversations', lastEvent'.convId)
            IN /\ Len(after) = Len(MessagesOf(conversations, lastEvent'.convId)) + 1
               /\ IsError(after[Len(after)])
               /\ after[Len(after)].content
                    = Str(<<"Something went wrong. Please try again.">>)]_vars
  /\ [](\A i \in DOMAIN conversations : \A j \in DOMAIN conversations[i].messages :
          conversations[i].messages[j].content # Get(REPLY_FAILED, "error"))

\* C7: the active-conversation pointer is null or the id of a conversation
\* of the collection.
C7_ActivePointerValid ==
  activeConversationId = NullId \/ activeConversationId \in ConvIds(conversations)

C7_Witness ==
  /\ lastEvent.op = "toggleSampleData"
  /\ lastEvent.outcome = "off"
  /\ pending # {}
  /\ activeConversationId # NullId

\* C8: the flow is in Sending only while a gateway call is outstanding: the
\* step in which the call resolves or rejects clears the loading flag and
\* issues setProcessing(false), also when the observer throws, and outside
\* Sending the last setProcessing call issued is never setProcessing(true).
C8_ReturnsToIdle ==
  /\ [](isLoading <=> pending # {})
  /\ [](~isLoading => setProcessingIssued # "true")
  /\ [][Settled => (~isLoading' /\ setProcessingIssued' = "false")]_vars

C8_Witness ==
  /\ lastEvent.op \in {"resolve", "reject"}
  /\ lastEvent.threw
  /\ ~isLoading
  /\ setProcessingIssued = "false"

\* C9: the message of a turn goes to the conversation whose id was captured
\* at submission, whichever conversation is active when it arrives: that
\* conversation, if still there, gains the message and every other one,
\* the active one included, is unchanged.
C9_ReplyGoesToCapturedConversation ==
  [][Settled
       => LET id == lastEvent'.convId
          IN /\ OthersUnchanged(conversations, conversations', id)
             /\ Present(conversations, id)
                  => /\ Len(MessagesOf(conversations', id))
                          = Len(MessagesOf(conversations, id)) + 1
                     /\ MessagesOf(conversations', id)[Len(MessagesOf(conversations', id))].role
                          = "assistant"
             /\ activeConversationId' = activeConversationId]_vars

C9_Witness ==
  /\ lastEvent.op \in {"resolve", "reject"}
  /\ Present(conversations, lastEvent.convId)
  /\ activeConversationId # lastEvent.convId
  /\ activeConversationId # NullId
  /\ MessagesOf(conversations, lastEvent.convId)
       [Len(MessagesOf(conversations, lastEvent.convId))].role = "assistant"

\* C10 (as claimed): a resolved gateway call adds exactly one message to the
\* conversation of the turn.
C10_ResolveAppendsOne ==
  [][lastEvent'.op = "resolve"
       => Len(MessagesOf(conversations', lastEvent'.convId))
            = Len(MessagesOf(conversations, lastEvent'.convId)) + 1]_vars

\* C10 (amended): when the gateway call resolves and the conversation of the
\* turn is still in the collection, its messages are the former ones followed
\* by one assistant message without error flag whose content is the text of
\* the normalizer, with the normalizer's products when that list is not
\* empty and its comparison when there is one; no other conversation
\* changes; when the conversation is gone, no message is added anywhere.
C10_ResolveAppendsOneIfPresent ==
  [][lastEvent'.op = "resolve"
       => LET id == lastEvent'.convId
              before == MessagesOf(conversations, id)
              after == MessagesOf(conversations', id)
              n == parseAgentResponse(lastEvent'.result)
          IN /\ OthersUnchanged(conversations, conversations', id)
             /\ IF Present(conversations, id)
                  THEN /\ Len(after) = Len(before) + 1
                       /\ SubSeq(after, 1, Len(before)) = before
                       /\ after[Len(after)].role = "assistant"
                       /\ ~IsError(after[Len(after)])
                       /\ after[Len(after)].content = n.text
                       /\ IF Len(n.products.a) > 0
                            THEN after[Len(after)].products = n.products
                            ELSE ~Truthy(after[Len(after)].products)
                       /\ IF n.comparison # JSNull
                            THEN after[Len(after)].comparison = n.comparison
                            ELSE ~Truthy(after[Len(after)].comparison)
                  ELSE after = before]_vars

C10_Witness ==
  /\ lastEvent.op = "resolve"
  /\ lastEvent.result = REPLY_OBJECT
  /\ Present(conversations, lastEvent.convId)
  /\ LET msgs == MessagesOf(conversations, lastEvent.convId)
     IN /\ msgs[Len(msgs)].role = "assistant"
        /\ Truthy(msgs[Len(msgs)].products)
        /\ Truthy(msgs[Len(msgs)].comparison)

\* the text holds nothing but white space (the empty text included)
Blank(s) == \A i \in DOMAIN s : s[i] = " "

\* C11: submitting an empty or white-space-only text while no turn is in
\* flight changes nothing: no conversation is created, no message appended,
\* the active pointer and the slot stay what they were, no gateway call is
\* made, no identifier is drawn and the flow stays idle.
C11_BlankSubmissionNoOp ==
  [][(~isLoading /\ lastEvent'.op = "sendMessage" /\ Blank(lastEvent'.result.s))
       => (/\ UNCHANGED <<conversations, activeConversationId, localStorage,
                          pending, nextId, setProcessingIssued>>
           /\ ~isLoading')]_vars

C11_Witness ==
  /\ lastEvent.op = "sendMessage"
  /\ lastEvent.result = Str(<<" ", " ">>)
  /\ ~isLoading
  /\ pending = {}
  /\ Len(conversations) > 0

\* the conversation id of convs
ConvOf(convs, id) == convs[FindIndex(convs, id)]

\* a submission was accepted in this step (typed, or re-sent by a retry)
Accepted ==
  /\ lastEvent'.op \in {"sendMessage", "retryLastMessage"}
  /\ lastEvent'.outcome = "accepted"

\* a title, once its conversation holds a message, is never changed
TitleKept ==
  \A i \in DOMAIN conversations :
    (Len(conversations[i].messages) > 0 /\ Present(conversations', conversations[i].id))
      => ConvOf(conversations', conversations[i].id).title = conversations[i].title

\* C12 (as claimed): the user message that is the first message of its
\* conversation makes the title the submitted text cut to its first 50
\* characters, and no later step changes the title.
C12_TitleIsSubmittedText ==
  [][/\ (Accepted /\ Len(MessagesOf(conversations, lastEvent'.convId)) = 0)
          => ConvOf(conversations', lastEvent'.convId).title
               = SubSeq(lastEvent'.result.s, 1,
                        IF Len(lastEvent'.result.s) < 50 THEN Len(lastEvent'.result.s) ELSE 50)
     /\ TitleKept]_vars

\* C12 (amended): the user message that is the first message of its
\* conversation (created by the submission, or earlier by
\* createNewConversation) makes the title the submitted text without its
\* leading and trailing white space, cut to its first 50 characters; a step
\* that appends to, or retries in, a conversation that holds a message leaves
\* its title alone.
C12_TitleIsTrimmedText ==
  [][/\ (Accepted /\ Len(MessagesOf(conversations, lastEvent'.convId)) = 0)
          => LET t == trimEnd(trimStart(lastEvent'.result.s))
             IN /\ ConvOf(conversations', lastEvent'.convId).title
                     = SubSeq(t, 1, IF Len(t) < 50 THEN Len(t) ELSE 50)
                /\ Len(ConvOf(conversations', lastEvent'.convId).title) <= 50
     /\ TitleKept]_vars

\* a conversation made by createNewConversation whose first message, longer
\* than a title, was then submitted
C12_Witness ==
  /\ lastEvent.op = "sendMessage"
  /\ lastEvent.outcome = "accepted"
  /\ lastEvent.convId = generateId(1)
  /\ Present(conversations, generateId(1))
  /\ Len(lastEvent.result.s) > 50
  /\ Len(ConvOf(conversations, generateId(1)).title) = 50
  /\ Len(MessagesOf(conversations, generateId(1))) = 1

\* C13: while sample data is off and localStorage.setItem works, the slot
\* holds the serialization of the collection whenever the collection holds a
\* conversation, and every step that changes the collection (a conversation
\* created, a user, assistant or error message appended, error messages
\* removed by a retry, a list loaded) leaves the slot holding the
\* serialization of the collection it produced.
C13_ChangesAreSaved ==
  /\ []((mounted /\ ~sampleDataOn /\ storageWritable /\ Len(conversations) > 0)
          => localStorage = JSONstringify(conversations))
  /\ [][(~sampleDataOn /\ ~sampleDataOn' /\ storageWritable
          /\ conversations' # conversations)
         => (/\ Len(conversations') > 0
             /\ localStorage' = JSONstringify(conversations'))]_vars

\* a failed turn in a second conversation has been saved
C13_Witness ==
  /\ lastEvent.op = "reject"
  /\ ~sampleDataOn
  /\ storageWritable
  /\ Len(conversations) = 2
  /\ Len(storedList(localStorage).list) = 2
  /\ \E i \in 1..2 : \E j \in DOMAIN storedList(localStorage).list[i].messages :
       /\ storedList(localStorage).list[i].id = lastEvent.convId
       /\ IsError(storedList(localStorage).list[i].messages[j])

\* two values of an optional property are the same: a property that is
\* undefined and one that is not there read alike
SameField(a, b) ==
  \/ a = b
  \/ (a \in {Undefined, Absent} /\ b \in {Undefined, Absent})

SameMessage(m1, m2) ==
  /\ m1.id = m2.id
  /\ m1.role = m2.role
  /\ m1.content = m2.content
  /\ SameField(m1.products, m2.products)
  /\ SameField(m1.comparison, m2.comparison)
  /\ SameField(m1.error, m2.error)

SameConversation(c1, c2) ==
  /\ c1.id = c2.id
  /\ c1.sessionId = c2.sessionId
  /\ c1.title = c2.title
  /\ Len(c1.messages) = Len(c2.messages)
  /\ \A j \in DOMAIN c1.messages : SameMessage(c1.messages[j], c2.messages[j])

\* the same conversations in the same order
SameCollection(convs1, convs2) ==
  /\ Len(convs1) = Len(convs2)
  /\ \A i \in DOMAIN convs1 : SameConversation(convs1[i], convs2[i])

MessageInvariant(m) ==
  /\ m.role = "user"
       => (~Truthy(m.products) /\ ~Truthy(m.comparison) /\ ~Truthy(m.error))
  /\ (m.role = "assistant" /\ m.error = Bool(TRUE))
       => (~Truthy(m.products) /\ ~Truthy(m.comparison))

\* C15: every message of every conversation satisfies the message
\* invariant: a user message carries no products, no comparison and no error
\* flag, an assistant message with error = true carries no products and no
\* comparison; so does every message a step appends.
C15_MessageInvariant ==
  \A i \in DOMAIN conversations : \A j \in DOMAIN conversations[i].messages :
    /\ conversations[i].messages[j].role \in {"user", "assistant"}
    /\ MessageInvariant(conversations[i].messages[j])

\* a retry has re-sent the user message of a failed turn and the call has
\* failed again: the conversation holds messages made by submit, retry and
\* failure
C15_Witness ==
  /\ lastEvent.op = "reject"
  /\ Present(conversations, lastEvent.convId)
  /\ LET msgs == MessagesOf(conversations, lastEvent.convId)
     IN /\ Len(msgs) = 3
        /\ msgs[1].role = "user"
        /\ msgs[2].role = "user"
        /\ msgs[2].id[1] = "gen"
        /\ msgs[3].error = Bool(TRUE)

\* an error message is in convs2 that is not in convs1
NewErrorMessage(convs1, convs2) ==
  \E i \in DOMAIN convs2 : \E j \in DOMAIN convs2[i].messages :
    /\ IsError(convs2[i].messages[j])
    /\ \A k \in DOMAIN convs1 : \A l \in DOMAIN convs1[k].messages :
         convs1[k].messages[l].id # convs2[i].messages[j].id

\* C16 (as claimed): while localStorage.setItem throws, every step leaves
\* the collection and the active pointer what the same step leaves with a
\* setItem that works, no error message is appended unless a gateway call
\* failed, and the loading flag is set exactly while a call is outstanding.
C16_WriteFailureInvisible ==
  /\ [][(~storageWritable /\ sampleDataOn' # sampleDataOn)
          => LET c == commit(conversations, activeConversationId, sampleDataOn',
                             localStorage, TRUE, FALSE, TRUE)
             IN /\ conversations' = c.conversations
                /\ activeConversationId' = c.activeConversationId]_vars
  /\ [][(~storageWritable /\ mounted /\ sampleDataOn' = sampleDataOn
          /\ NewErrorMessage(conversations, conversations'))
          => lastEvent'.op = "reject"]_vars
  /\ [](~storageWritable => (isLoading <=> pending # {}))

\* the slot holds no list: nothing, the empty string, text that is not JSON,
\* or JSON of a value that is not a list
NoPriorData(slot) == ~storedList(slot).some

\* C17 (as claimed): with a slot that holds no list, the load at start-up
\* and the load on leaving sample data both end with an empty collection, no
\* active conversation and the loading flag as it was.
C17_BadSlotIsNoPriorData ==
  [][((lastEvent'.op = "mount"
        \/ (lastEvent'.op = "toggleSampleData" /\ ~sampleDataOn'))
       /\ NoPriorData(localStorage))
      => (/\ conversations' = <<>>
          /\ activeConversationId' = NullId
          /\ isLoading' = isLoading)]_vars

\* C18 (as claimed): while sample data is on, the collection is the built-in
\* dataset.
C18_SampleDataReadOnly ==
  (mounted /\ sampleDataOn) => conversations = SAMPLE_CONVERSATIONS

\* C19 (as claimed): for every reply, parseAgentResponse returns and the
\* text it returns is a string that is not empty.
C19_TextIsNonEmptyString ==
  normalized.returned => (IsString(normalized.text) /\ Len(normalized.text.s) > 0)

\* the reply has a payload whose result is a string that is not empty and is
\* not JSON text of an object or a list: prose, or JSON text of a number, a
\* boolean, null or a string
UnstructuredStringResult(reply) ==
  /\ Truthy(reply)
  /\ Truthy(Get(reply, "success"))
  /\ Truthy(Get(reply, "response"))
  /\ LET raw == Get(Get(reply, "response"), "result")
     IN /\ IsString(raw)
        /\ Len(raw.s) > 0
        /\ \/ raw.s = <<"plain prose answer">>
           \/ raw.s \in {<<JSON_NUMBER>>, <<JSON_TRUE>>, <<JSON_NULL>>, <<JSON_QUOTED>>}

\* C20 (as claimed): a result that is such a string is returned whole as the
\* text, with no products and no comparison.
C20_UnstructuredStringIsText ==
  (normalized.returned /\ UnstructuredStringResult(rawReply))
    => (/\ normalized.text = Get(Get(rawReply, "response"), "result")
        /\ normalized.products = Arr(<<>>)
        /\ normalized.comparison = JSNull)

\* the candidate object of a reply: response.result when it is an object
\* that is not a list, or what it decodes to when it is JSON text of an
\* object or a list; JSNull when the reply has none
Candidate(reply) ==
  IF ~(Truthy(reply) /\ Truthy(Get(reply, "success")) /\ Truthy(Get(reply, "response")))
    THEN JSNull
  ELSE LET raw == Get(Get(reply, "response"), "result")
       IN IF raw.t = "object" THEN raw
          ELSE IF IsString(raw) /\ JSONparse(raw).ok
                  /\ JSONparse(raw).value.t \in {"object", "array"}
            THEN JSONparse(raw).value
          ELSE JSNull

\* the known text keys, in their order
TextKeys == <<"response", "text", "message", "answer", "content">>

\* the value of k in obj is a string that is not empty
NonEmptyStringAt(obj, k) == IsString(Get(obj, k)) /\ Len(Get(obj, k).s) > 0

HasTextKey(obj) == \E i \in DOMAIN TextKeys : NonEmptyStringAt(obj, TextKeys[i])

\* the value of the first known text key of obj that holds a non-empty string
FirstText(obj) ==
  Get(obj, TextKeys[CHOOSE i \in DOMAIN TextKeys :
                      /\ NonEmptyStringAt(obj, TextKeys[i])
                      /\ \A j \in 1..(i - 1) : ~NonEmptyStringAt(obj, TextKeys[j])])

\* C21: when the candidate object of a reply holds a non-empty string under
\* one of the keys response, text, message, answer, content, the text
\* returned is the value of the first such key in that order; a key holding
\* an empty string or a value that is not a string is passed over.
C21_FirstTextKeyWins ==
  (normalized.returned /\ Candidate(rawReply) # JSNull /\ HasTextKey(Candidate(rawReply)))
    => normalized.text = FirstText(Candidate(rawReply))

\* response holds a number and is passed over, answer outranks content
C21_Witness ==
  /\ normalized.returned
  /\ Candidate(rawReply) = CAND_NUMBER_RESPONSE_THEN_ANSWER
  /\ normalized.text = Str(<<"from answer">>)

\* an entry of a products list that is an object with a non-empty string name
NamedProduct(p) == p.t = "object" /\ NonEmptyStringAt(p, "name")

\* C22 (as claimed): the products returned for a reply with a candidate
\* object (and no secondary raw payload) are the entries of its products
\* list that are objects with a non-empty string name, in their order, and
\* none when products is not a list.
C22_ProductsHaveNonEmptyName ==
  (normalized.returned /\ Candidate(rawReply) # JSNull
     /\ ~Truthy(Get(rawReply, "raw_response")))
    => normalized.products =
         (IF IsArray(Get(Candidate(rawReply), "products"))
            THEN Arr(SelectSeq(Get(Candidate(rawReply), "products").a, NamedProduct))
            ELSE Arr(<<>>))

C24_RetryKeepsEarlierMessages ==
  [][(lastEvent'.op = "retryLastMessage" /\ lastEvent'.outcome = "accepted")
       => LET before == MessagesOf(conversations, lastEvent'.convId)
              after == MessagesOf(conversations', lastEvent'.convId)
              ui == lastUserIndex(before)
          IN /\ Len(after) >= ui
             /\ SubSeq(after, 1, ui) = SubSeq(before, 1, ui)]_vars

IsPrefix(a, b) == Len(a) <= Len(b) /\ SubSeq(b, 1, Len(a)) = a

\* the messages of msgs that carry no error flag, in their order
WithoutErrors(msgs) == SelectSeq(msgs, LAMBDA m : ~Truthy(m.error))

\* the step replaces the store wholesale: the loads at start-up and on a
\* sample-data toggle
WholesaleReplacement == lastEvent'.op \in {"mount", "toggleSampleData"}

\* C25: in every step that is not a wholesale replacement, every
\* conversation stays in the collection and its former message list is a
\* prefix of its new one; in a retry step the former list of the active
\* conversation without its error-flagged messages is a prefix of the new
\* one, so that no other message is removed or moved, and every other
\* conversation keeps its list.
C25_AppendOnly ==
  [][~WholesaleReplacement
       => \A i \in DOMAIN conversations :
            LET id == conversations[i].id
                before == conversations[i].messages
                after == MessagesOf(conversations', id)
            IN /\ Present(conversations', id)
               /\ Len(after) <= Len(before) + 1
               /\ IF lastEvent'.op = "retryLastMessage" /\ id = activeConversationId
                    THEN IsPrefix(WithoutErrors(before), after)
                    ELSE IsPrefix(before, after)
               /\ (lastEvent'.op = "retryLastMessage" /\ id # activeConversationId)
                    => after = before]_vars

\* a retry in a conversation of two failed turns has removed its error
\* messages and kept its user messages in order
C25_Witness ==
  /\ lastEvent.op = "retryLastMessage"
  /\ lastEvent.outcome = "accepted"
  /\ lastEvent.convId = PERSISTED_TWO_FAILURES.id
  /\ LET msgs == MessagesOf(conversations, lastEvent.convId)
     IN /\ Len(msgs) = 3
        /\ msgs[1] = PERSISTED_TWO_FAILURES.messages[1]
        /\ msgs[2] = PERSISTED_TWO_FAILURES.messages[3]

\* C26: when the call of a turn resolves or rejects and the conversation the
\* turn captured is not in the collection, the step changes no conversation
\* and creates none, leaves the active pointer alone, clears the loading
\* flag and leaves no call outstanding.
C26_StaleReplyIsNoOp ==
  [][(Settled /\ ~Present(conversations, lastEvent'.convId))
       => (/\ conversations' = conversations
           /\ activeConversationId' = activeConversationId
           /\ ~isLoading'
           /\ pending' = {}
           /\ setProcessingIssued' = "false")]_vars

\* the store was replaced by the sample data while the call was
\* outstanding, and the reply has arrived
C26_Witness ==
  /\ lastEvent.op = "resolve"
  /\ ~Present(conversations, lastEvent.convId)
  /\ sampleDataOn
  /\ conversations = SAMPLE_CONVERSATIONS
  /\ ~isLoading

\* the payload of the reply gives no text: its candidate object holds none
\* under a known key, its result is not prose, and it has no message
NoPrimaryText(reply) ==
  /\ Truthy(reply)
  /\ Truthy(Get(reply, "success"))
  /\ Truthy(Get(reply, "response"))
  /\ ~Truthy(Get(Get(reply, "response"), "message"))
  /\ LET raw == Get(Get(reply, "response"), "result")
     IN IF Candidate(reply) # JSNull
          THEN ~HasTextKey(Candidate(reply))
          ELSE ~(IsString(raw) /\ Len(raw.s) > 0 /\ ~JSONparse(raw).ok)

\* response.result of the object raw_response decodes to (Undefined when
\* there is none)
NestedResult(reply) ==
  LET p == JSONparse(Get(reply, "raw_response"))
  IN IF IsString(Get(reply, "raw_response")) /\ p.ok /\ p.value.t = "object"
          /\ Get(p.value, "response").t = "object"
       THEN Get(Get(p.value, "response"), "result")
       ELSE Undefined

\* C27 (as claimed): when the payload gives no text and response.result of
\* the secondary raw payload is an object, the text returned is the value of
\* its first known text key (response, text, message, answer, content) that
\* holds a non-empty string, and, the payload having no products, the
\* products returned are its products with a string name.
C27_NestedObjectSameRules ==
  (normalized.returned /\ NoPrimaryText(rawReply)
     /\ NestedResult(rawReply).t = "object" /\ HasTextKey(NestedResult(rawReply)))
    => (/\ normalized.text = FirstText(NestedResult(rawReply))
        /\ (Candidate(rawReply) = JSNull
              => normalized.products = candidateProducts(NestedResult(rawReply))))

\* the session ids and the ids of the conversations of convs
SessionIds(convs) == {convs[i].sessionId : i \in DOMAIN convs}

\* C28: the gateway call an accepted submission makes carries the sessionId
\* of the conversation that received the user message of the turn; that
\* session id is the id of no conversation of the collection.
C28_SessionIdOfTheConversation ==
  [][Accepted
       => (/\ Cardinality(pending' \ pending) = 1
           /\ \A call \in pending' \ pending :
                /\ call.convId = lastEvent'.convId
                /\ Present(conversations', call.convId)
                /\ LET c == ConvOf(conversations', call.convId)
                   IN /\ call.sessionId = c.sessionId
                      /\ Len(c.messages) > 0
                      /\ c.messages[Len(c.messages)].id = call.turn
                      /\ c.messages[Len(c.messages)].role = "user"
                /\ call.sessionId \in SessionIds(conversations')
                /\ call.sessionId \notin ConvIds(conversations')
                /\ call.sessionId # call.convId)]_vars

\* the first submission of a run has created its conversation and sent the
\* session id of that conversation, not the one drawn before it was created
C28_Witness ==
  /\ lastEvent.op = "sendMessage"
  /\ lastEvent.outcome = "accepted"
  /\ Len(conversations) = 1
  /\ \E call \in pending :
       /\ call.convId = conversations[1].id
       /\ call.sessionId = conversations[1].sessionId
       /\ call.convId = generateId(2)
       /\ call.sessionId = generateId(3)

\* msgs ends with the user message turn followed by one assistant message
EndsWithTurnAndReply(msgs, turn) ==
  /\ Len(msgs) >= 2
  /\ msgs[Len(msgs) - 1].id = turn
  /\ msgs[Len(msgs) - 1].role = "user"
  /\ msgs[Len(msgs)].role = "assistant"

\* the conversation id is in the list the slot holds, with the messages msgs
PersistedAs(slot, id, msgs) ==
  \E i \in DOMAIN storedList(slot).list :
    /\ storedList(slot).list[i].id = id
    /\ Len(storedList(slot).list[i].messages) = Len(msgs)
    /\ \A j \in DOMAIN msgs : SameMessage(storedList(slot).list[i].messages[j], msgs[j])

\* C29 (as claimed): when the gateway call of a turn resolves or rejects,
\* the conversation of the turn ends, in the store, with the user message of
\* the turn followed by one assistant message, and so it does in the slot
\* when sample data is off and setItem works.
C29_NoTurnLost ==
  [][Settled
       => \A call \in pending \ pending' :
            /\ EndsWithTurnAndReply(MessagesOf(conversations', call.convId), call.turn)
            /\ (~sampleDataOn' /\ storageWritable)
                 => PersistedAs(localStorage', call.convId,
                                MessagesOf(conversations', call.convId))]_vars

\* C29 (amended): when the gateway call of a turn resolves or rejects and
\* the user message of the turn is still the last message of its
\* conversation in the store, that conversation becomes its former messages
\* followed by exactly one assistant message, whichever conversation is
\* active, and the call is no longer outstanding; with sample data off and a
\* setItem that works the slot then holds the conversation with the same
\* messages.  When the conversation is no longer in the store, no message is
\* added anywhere.
C29_NoTurnLostWhileInStore ==
  [][Settled
       => \A call \in pending \ pending' :
            LET before == MessagesOf(conversations, call.convId)
                after == MessagesOf(conversations', call.convId)
            IN /\ call \notin pending'
               /\ (Len(before) > 0 /\ before[Len(before)].id = call.turn)
                    => /\ Len(after) = Len(before) + 1
                       /\ SubSeq(after, 1, Len(before)) = before
                       /\ EndsWithTurnAndReply(after, call.turn)
                       /\ (~sampleDataOn /\ storageWritable)
                            => PersistedAs(localStorage', call.convId, after)
               /\ ~Present(conversations, call.convId)
                    => conversations' = conversations]_vars

\* the reply of a turn has arrived, and has been saved, after the user made
\* another conversation and selected it
C29_Witness ==
  /\ lastEvent.op = "resolve"
  /\ ~sampleDataOn
  /\ storageWritable
  /\ Len(conversations) = 2
  /\ activeConversationId # lastEvent.convId
  /\ Present(conversations, lastEvent.convId)
  /\ Len(MessagesOf(conversations, lastEvent.convId)) = 2
  /\ MessagesOf(conversations, lastEvent.convId)[1].role = "user"
  /\ MessagesOf(conversations, lastEvent.convId)[2].role = "assistant"
  /\ PersistedAs(localStorage, lastEvent.convId, MessagesOf(conversations, lastEvent.convId))

====
